---- MODULE Spec2Model ----
(***************************************************************************)
(* rbac-shield: the permission matcher (checkPermission), the access       *)
(* combinator (checkAccess), the tenant store held by RBACProvider         *)
(* (setAuth / switchTenant / reset) and the query hooks that read it.      *)
(*                                                                         *)
(* Representation.  A permission string is a sequence of one-character     *)
(* strings, so that String.prototype.split is computed and not assumed.    *)
(* Tenant ids and role names are only ever compared, tested for            *)
(* truthiness and used as object keys, so they are TLA+ strings.  A        *)
(* JavaScript object is a function whose DOMAIN is its set of own keys;    *)
(* an optional property that is absent is a key outside the DOMAIN.        *)
(***************************************************************************)
EXTENDS Integers, Sequences, FiniteSets, TLC

VARIABLES
    activeTenantId,         \* RBACState.activeTenantId (string | null)
    tenants,                \* RBACState.tenants
    isLoading,              \* RBACState.isLoading
    closureActiveTenantId,  \* state.activeTenantId as captured by the memoized setAuth
    debug,                  \* the provider's debug prop
    mounted,                \* the consuming component's mounted flag
    lastCall,               \* history: the last store operation, its input, what it found
    pc,                     \* position of the pure-function call under test
    args,                   \* arguments of the pure-function call under test
    ret,                    \* its return value
    invoked,                \* the argument lists the wrapped action was invoked with
    retained,               \* what a checkRequirement callback kept by the caller closes over
    props,                  \* the props of the rendered Can / ProtectedRoute
    route                   \* ProtectedRoute: shouldRedirect, the redirect effect's last deps, router.replace calls

storeVars == <<activeTenantId, tenants, isLoading, closureActiveTenantId, debug, mounted, lastCall, retained, props, route>>
callVars == <<pc, args, ret, invoked>>
vars == <<activeTenantId, tenants, isLoading, closureActiveTenantId, debug, mounted, lastCall,
          pc, args, ret, invoked, retained, props, route>>

----------------------------------------------------------------------------
(* Bounds *)

MaxHeld == 2        \* longest held-permission list given to checkPermission
MaxTenantRoles == 1 \* longest tenant.roles list given to checkAccess
MaxTenantPerms == 2 \* longest tenant.permissions list given to checkAccess
MaxReq == 2         \* longest roles / permissions list of a requirement
MaxFlat == 2        \* longest flat permission list given to setAuth / initialData
MaxTenants == 2     \* longest TenantAuthInput list given to setAuth / initialData
MaxQuery == 2       \* longest list given to a query hook
MaxHandlers == 3    \* most keys of a handlers object given to match
MaxReplace == 2     \* most router.replace calls of one ProtectedRoute that are followed

----------------------------------------------------------------------------
(* JavaScript values *)

Null == "<null>"    \* the value null; no tenant id of the model is this string

EmptyObject == [k \in {} |-> TRUE]

\* the strings of the model, as character sequences
STAR == <<"*">>
R_A == <<"r", ":", "a">>
R_B == <<"r", ":", "b">>
Q_A == <<"q", ":", "a">>
R_STAR == <<"r", ":", "*">>
Q_STAR == <<"q", ":", "*">>
R_ == <<"r">>
COLON_A == <<":", "a">>
COLON_STAR == <<":", "*">>
EMPTY == <<>>
R_A_B == <<"r", ":", "a", ":", "b">>

\* all sequences over S of length at most n
SeqsUpTo(S, n) == UNION {[1..k -> S] : k \in 0..n}

\* Array.prototype.includes
includes(arr, x) == \E i \in 1..Len(arr) : arr[i] = x

\* String.prototype.split(sep) for a one-character separator
RECURSIVE split(_, _)
split(s, sep) ==
    IF \E i \in 1..Len(s) : s[i] = sep
    THEN LET i == CHOOSE k \in 1..Len(s) :
                      s[k] = sep /\ \A j \in 1..(k - 1) : s[j] # sep
         IN <<SubSeq(s, 1, i - 1)>> \o split(SubSeq(s, i + 1, Len(s)), sep)
    ELSE <<s>>

----------------------------------------------------------------------------
(* checkPermission *)

\* faulty variant: the resource wildcard is tried even when the resource is empty
checkPermission_EmptyResource(heldPermissions, requiredPermission) ==
    IF includes(heldPermissions, STAR) THEN TRUE
    ELSE IF includes(heldPermissions, requiredPermission) THEN TRUE
    ELSE LET resource == split(requiredPermission, ":")[1]
         IN includes(heldPermissions, resource \o <<":", "*">>)

\* faulty variant: a required string without ":" has no resource
checkPermission_NoColonNoResource(heldPermissions, requiredPermission) ==
    IF includes(heldPermissions, STAR) THEN TRUE
    ELSE IF includes(heldPermissions, requiredPermission) THEN TRUE
    ELSE LET resource == IF includes(requiredPermission, ":")
                         THEN split(requiredPermission, ":")[1]
                         ELSE <<>>
         IN resource # <<>> /\ includes(heldPermissions, resource \o <<":", "*">>)

checkPermission(heldPermissions, requiredPermission) ==
    IF includes(heldPermissions, STAR) THEN TRUE
    ELSE IF includes(heldPermissions, requiredPermission) THEN TRUE
    ELSE LET resource == split(requiredPermission, ":")[1]
         IN IF resource # <<>> /\ includes(heldPermissions, resource \o <<":", "*">>)
            THEN TRUE
            ELSE FALSE

----------------------------------------------------------------------------
(* Completion of a call: a returned value or a thrown error *)

Return(v) == [kind |-> "return", value |-> v]
Throw(e) == [kind |-> "throw", error |-> e]
Pending == [kind |-> "pending"]

----------------------------------------------------------------------------
(* checkAccess *)

\* requirements.roles?.length / requirements.permissions?.length is truthy
hasLength(requirements, field) ==
    field \in DOMAIN requirements /\ Len(requirements[field]) > 0

\* faulty variant: role and permission requirements are combined with OR
checkAccess_OrAcrossCategories(tenant, requirements, requireAll) ==
    LET rolesRequired == hasLength(requirements, "roles")
        permsRequired == hasLength(requirements, "permissions")
        \* tenant.roles.includes / tenant.permissions.includes on a value
        \* without that property is a TypeError
        roleThrows == rolesRequired /\ "roles" \notin DOMAIN tenant
        permThrows == permsRequired /\ "permissions" \notin DOMAIN tenant
        roleMatch ==
            IF rolesRequired
            THEN IF includes(tenant.roles, "*") THEN TRUE
                 ELSE \E i \in 1..Len(requirements.roles) : includes(tenant.roles, requirements.roles[i])
            ELSE TRUE
        permMatch ==
            IF permsRequired
            THEN IF includes(tenant.permissions, STAR) THEN TRUE
                 ELSE IF requireAll
                      THEN \A i \in 1..Len(requirements.permissions) :
                               checkPermission(tenant.permissions, requirements.permissions[i])
                      ELSE \E i \in 1..Len(requirements.permissions) :
                               checkPermission(tenant.permissions, requirements.permissions[i])
            ELSE TRUE
    IN IF roleThrows \/ permThrows THEN Throw("TypeError")
       ELSE IF rolesRequired /\ permsRequired THEN Return(roleMatch \/ permMatch)
       ELSE IF rolesRequired THEN Return(roleMatch)
       ELSE IF permsRequired THEN Return(permMatch)
       ELSE Return(TRUE)


\* faulty variant: requireAll also applies to the roles array
checkAccess_RequireAllRoles(tenant, requirements, requireAll) ==
    LET rolesRequired == hasLength(requirements, "roles")
        permsRequired == hasLength(requirements, "permissions")
        \* tenant.roles.includes / tenant.permissions.includes on a value
        \* without that property is a TypeError
        roleThrows == rolesRequired /\ "roles" \notin DOMAIN tenant
        permThrows == permsRequired /\ "permissions" \notin DOMAIN tenant
        roleMatch ==
            IF rolesRequired
            THEN IF includes(tenant.roles, "*") THEN TRUE
                 ELSE IF requireAll
                      THEN \A i \in 1..Len(requirements.roles) : includes(tenant.roles, requirements.roles[i])
                      ELSE \E i \in 1..Len(requirements.roles) : includes(tenant.roles, requirements.roles[i])
            ELSE TRUE
        permMatch ==
            IF permsRequired
            THEN IF includes(tenant.permissions, STAR) THEN TRUE
                 ELSE IF requireAll
                      THEN \A i \in 1..Len(requirements.permissions) :
                               checkPermission(tenant.permissions, requirements.permissions[i])
                      ELSE \E i \in 1..Len(requirements.permissions) :
                               checkPermission(tenant.permissions, requirements.permissions[i])
            ELSE TRUE
    IN IF roleThrows \/ permThrows THEN Throw("TypeError")
       ELSE IF rolesRequired /\ permsRequired THEN Return(roleMatch /\ permMatch)
       ELSE IF rolesRequired THEN Return(roleMatch)
       ELSE IF permsRequired THEN Return(permMatch)
       ELSE Return(TRUE)


\* faulty variant: the permissions array is always OR
checkAccess_IgnoresRequireAll(tenant, requirements, requireAll) ==
    LET rolesRequired == hasLength(requirements, "roles")
        permsRequired == hasLength(requirements, "permissions")
        \* tenant.roles.includes / tenant.permissions.includes on a value
        \* without that property is a TypeError
        roleThrows == rolesRequired /\ "roles" \notin DOMAIN tenant
        permThrows == permsRequired /\ "permissions" \notin DOMAIN tenant
        roleMatch ==
            IF rolesRequired
            THEN IF includes(tenant.roles, "*") THEN TRUE
                 ELSE \E i \in 1..Len(requirements.roles) : includes(tenant.roles, requirements.roles[i])
            ELSE TRUE
        permMatch ==
            IF permsRequired
            THEN IF includes(tenant.permissions, STAR) THEN TRUE
                 ELSE IF requireAll
                      THEN \E i \in 1..Len(requirements.permissions) :
                               checkPermission(tenant.permissions, requirements.permissions[i])
                      ELSE \E i \in 1..Len(requirements.permissions) :
                               checkPermission(tenant.permissions, requirements.permissions[i])
            ELSE TRUE
    IN IF roleThrows \/ permThrows THEN Throw("TypeError")
       ELSE IF rolesRequired /\ permsRequired THEN Return(roleMatch /\ permMatch)
       ELSE IF rolesRequired THEN Return(roleMatch)
       ELSE IF permsRequired THEN Return(permMatch)
       ELSE Return(TRUE)


\* faulty variant: no requirement is denied
checkAccess_DenyWithoutRequirement(tenant, requirements, requireAll) ==
    LET rolesRequired == hasLength(requirements, "roles")
        permsRequired == hasLength(requirements, "permissions")
        \* tenant.roles.includes / tenant.permissions.includes on a value
        \* without that property is a TypeError
        roleThrows == rolesRequired /\ "roles" \notin DOMAIN tenant
        permThrows == permsRequired /\ "permissions" \notin DOMAIN tenant
        roleMatch ==
            IF rolesRequired
            THEN IF includes(tenant.roles, "*") THEN TRUE
                 ELSE \E i \in 1..Len(requirements.roles) : includes(tenant.roles, requirements.roles[i])
            ELSE TRUE
        permMatch ==
            IF permsRequired
            THEN IF includes(tenant.permissions, STAR) THEN TRUE
                 ELSE IF requireAll
                      THEN \A i \in 1..Len(requirements.permissions) :
                               checkPermission(tenant.permissions, requirements.permissions[i])
                      ELSE \E i \in 1..Len(requirements.permissions) :
                               checkPermission(tenant.permissions, requirements.permissions[i])
            ELSE TRUE
    IN IF roleThrows \/ permThrows THEN Throw("TypeError")
       ELSE IF rolesRequired /\ permsRequired THEN Return(roleMatch /\ permMatch)
       ELSE IF rolesRequired THEN Return(roleMatch)
       ELSE IF permsRequired THEN Return(permMatch)
       ELSE Return(FALSE)


checkAccess(tenant, requirements, requireAll) ==
    LET rolesRequired == hasLength(requirements, "roles")
        permsRequired == hasLength(requirements, "permissions")
        \* tenant.roles.includes / tenant.permissions.includes on a value
        \* without that property is a TypeError
        roleThrows == rolesRequired /\ "roles" \notin DOMAIN tenant
        permThrows == permsRequired /\ "permissions" \notin DOMAIN tenant
        roleMatch ==
            IF rolesRequired
            THEN IF includes(tenant.roles, "*") THEN TRUE
                 ELSE \E i \in 1..Len(requirements.roles) : includes(tenant.roles, requirements.roles[i])
            ELSE TRUE
        permMatch ==
            IF permsRequired
            THEN IF includes(tenant.permissions, STAR) THEN TRUE
                 ELSE IF requireAll
                      THEN \A i \in 1..Len(requirements.permissions) :
                               checkPermission(tenant.permissions, requirements.permissions[i])
                      ELSE \E i \in 1..Len(requirements.permissions) :
                               checkPermission(tenant.permissions, requirements.permissions[i])
            ELSE TRUE
    IN IF roleThrows \/ permThrows THEN Throw("TypeError")
       ELSE IF rolesRequired /\ permsRequired THEN Return(roleMatch /\ permMatch)
       ELSE IF rolesRequired THEN Return(roleMatch)
       ELSE IF permsRequired THEN Return(permMatch)
       ELSE Return(TRUE)

----------------------------------------------------------------------------
(* Inputs of the pure-function specifications *)

MatchStrings ==
    {STAR, R_A, R_B, Q_A, R_STAR, Q_STAR, R_, COLON_A, COLON_STAR, EMPTY, R_A_B}

AccessTenantRoles == {"admin", "manager", "*"}
AccessTenantPerms == {STAR, R_A, R_STAR}
AccessReqRoles == {"admin", "manager"}
AccessReqPerms == {R_A, R_B}

\* requirement objects: each of roles and permissions absent, empty or non-empty
Requirements(roleLists, permLists) ==
    {EmptyObject}
    \cup {[roles |-> r] : r \in roleLists}
    \cup {[permissions |-> p] : p \in permLists}
    \cup {[roles |-> r, permissions |-> p] : r \in roleLists, p \in permLists}

\* the store as constructed without initialData
\* no checkRequirement callback has been kept
NotRetained == [kept |-> FALSE]

\* ProtectedRoute after construction: useState(false), the redirect effect has
\* not run, router.replace has not been called
RouteInitial == [shouldRedirect |-> FALSE, deps |-> [ran |-> FALSE], replaced |-> 0]

\* no Can and no ProtectedRoute is rendered
NoGuardRendered ==
    /\ props = [rendered |-> FALSE]
    /\ route = RouteInitial

StoreIdle ==
    /\ activeTenantId = Null
    /\ tenants = EmptyObject
    /\ isLoading = TRUE
    /\ closureActiveTenantId = Null
    /\ debug = FALSE
    /\ mounted = FALSE
    /\ lastCall = [op |-> "construct"]
    /\ retained = NotRetained
    /\ NoGuardRendered

CallIdle ==
    /\ pc = "idle"
    /\ args = EmptyObject
    /\ ret = Pending
    /\ invoked = <<>>

----------------------------------------------------------------------------
(* Specification of checkPermission over bounded inputs *)

InitMatch ==
    /\ StoreIdle
    /\ pc = "call"
    /\ args \in [heldPermissions : SeqsUpTo(MatchStrings, MaxHeld),
                 requiredPermission : MatchStrings]
    /\ ret = Pending
    /\ invoked = <<>>

CallCheckPermission ==
    /\ pc = "call"
    /\ pc' = "return"
    /\ ret' = Return(checkPermission(args.heldPermissions, args.requiredPermission))
    /\ UNCHANGED <<args, activeTenantId, tenants, isLoading, closureActiveTenantId, debug, mounted, lastCall,
                   invoked, retained, props, route>>

NextMatch == CallCheckPermission

SpecMatch == InitMatch /\ [][NextMatch]_vars

----------------------------------------------------------------------------
(* Specification of checkAccess over bounded inputs *)

InitAccess ==
    /\ StoreIdle
    /\ pc = "call"
    /\ args \in [tenant : [roles : SeqsUpTo(AccessTenantRoles, MaxTenantRoles),
                           permissions : SeqsUpTo(AccessTenantPerms, MaxTenantPerms)],
                 requirements : Requirements(SeqsUpTo(AccessReqRoles, MaxReq),
                                             SeqsUpTo(AccessReqPerms, MaxReq)),
                 requireAll : BOOLEAN]
    /\ ret = Pending
    /\ invoked = <<>>

CallCheckAccess ==
    /\ pc = "call"
    /\ pc' = "return"
    /\ ret' = checkAccess(args.tenant, args.requirements, args.requireAll)
    /\ UNCHANGED <<args, activeTenantId, tenants, isLoading, closureActiveTenantId, debug, mounted, lastCall,
                   invoked, retained, props, route>>

NextAccess == CallCheckAccess

SpecAccess == InitAccess /\ [][NextAccess]_vars

----------------------------------------------------------------------------
(* guard: specification of one invocation of the returned function *)

\* `[RBAC Shield] Access Denied: Missing permission '${required}'`
AccessDeniedMessage(required) ==
    <<
      "[", "R", "B", "A", "C", " ", "S", "h", "i", "e", "l", "d", "]", " ",
      "A", "c", "c", "e", "s", "s", " ", "D", "e", "n", "i", "e", "d", ":",
      " ", "M", "i", "s", "s", "i", "n", "g", " ", "p", "e", "r", "m", "i",
      "s", "s", "i", "o", "n", " ", "'"
    >> \o required \o <<"'">>

\* new Error(message)
Error(message) == [message |-> message]

\* action(...args): it returns a value or it throws
ActionOutcomes == {Return("done"), Throw(Error(<<"b", "o", "o", "m">>))}

GuardStrings == {STAR, R_A, R_B, Q_A, R_STAR, EMPTY}
GuardArgs == {<<>>, <<"x">>, <<"x", "y">>}

InitGuard ==
    /\ StoreIdle
    /\ pc = "call"
    /\ args \in [userPermissions : SeqsUpTo(GuardStrings, MaxHeld),
                 required : GuardStrings,
                 action : ActionOutcomes,
                 callArgs : GuardArgs]
    /\ ret = Pending
    /\ invoked = <<>>

\* faulty variant: the action is reached without the permission test
GuardCheck_NoCheck ==
    /\ pc = "call"
    /\ pc' = "action"
    /\ UNCHANGED <<args, ret, invoked, activeTenantId, tenants, isLoading, closureActiveTenantId,
                   debug, mounted, lastCall, retained, props, route>>

\* const hasAccess = checkPermission(userPermissions, required); if (!hasAccess) throw ...
GuardCheck ==
    /\ pc = "call"
    /\ IF ~checkPermission(args.userPermissions, args.required)
       THEN /\ pc' = "return"
            /\ ret' = Throw(Error(AccessDeniedMessage(args.required)))
       ELSE /\ pc' = "action"
            /\ ret' = ret
    /\ UNCHANGED <<args, invoked, activeTenantId, tenants, isLoading, closureActiveTenantId,
                   debug, mounted, lastCall, retained, props, route>>

\* return action(...args)
GuardAction ==
    /\ pc = "action"
    /\ invoked' = Append(invoked, args.callArgs)
    /\ ret' = args.action
    /\ pc' = "return"
    /\ UNCHANGED <<args, activeTenantId, tenants, isLoading, closureActiveTenantId,
                   debug, mounted, lastCall, retained, props, route>>

NextGuard == GuardCheck \/ GuardAction

SpecGuard == InitGuard /\ [][NextGuard]_vars

----------------------------------------------------------------------------
(* JavaScript objects as used by the store *)

Undefined == [typeof |-> "undefined"]

\* Every object literal inherits from Object.prototype: obj["constructor"]
\* is the function Object although "constructor" is no own key of obj.
ObjectPrototypeKeys == {"constructor"}
Inherited == [typeof |-> "function"]

\* the same inheritance for objects keyed by permission strings
VALUE_OF == <<"v", "a", "l", "u", "e", "O", "f">>
ObjectPrototypePermissionKeys == {VALUE_OF}

\* obj[key]
get(obj, key) ==
    IF key \in DOMAIN obj THEN obj[key]
    ELSE IF key \in ObjectPrototypeKeys THEN Inherited
    ELSE Undefined

\* { ...obj, [key]: value }
put(obj, key, value) ==
    [k \in DOMAIN obj \cup {key} |-> IF k = key THEN value ELSE obj[k]]

\* !!id for a string | null
truthyId(id) == id # Null /\ id # ""

\* an array of strings, an array of objects, a value that is no array
StringArray(items) == [strings |-> items]
ObjectArray(items) == [objects |-> items]
NotAnArray == [notArray |-> TRUE]

\* the elements of an array input
itemsOf(authInput) ==
    IF "strings" \in DOMAIN authInput THEN authInput.strings ELSE authInput.objects

----------------------------------------------------------------------------
(* processTenants *)

\* faulty variant: the accumulated lookup is not spread into the next one
RECURSIVE reducePermissions_NoSpread(_, _, _)
reducePermissions_NoSpread(permissions, i, pMap) ==
    IF i > Len(permissions) THEN pMap
    ELSE reducePermissions_NoSpread(permissions, i + 1, put(EmptyObject, permissions[i], TRUE))

\* curr.permissions.reduce((pMap, p) => ({ ...pMap, [p]: true }), {})
RECURSIVE reducePermissions(_, _, _)
reducePermissions(permissions, i, pMap) ==
    IF i > Len(permissions) THEN pMap
    ELSE reducePermissions(permissions, i + 1, put(pMap, permissions[i], TRUE))

\* authArray.reduce((acc, curr) => ({ ...acc, [curr.tenantId]: {...} }), {})
RECURSIVE reduceTenants(_, _, _)
reduceTenants(authArray, i, acc) ==
    IF i > Len(authArray) THEN acc
    ELSE LET curr == authArray[i]
             \* a computed key that is undefined becomes the string "undefined"
             key == IF "tenantId" \in DOMAIN curr THEN curr.tenantId ELSE "undefined"
         IN reduceTenants(authArray, i + 1,
                put(acc, key,
                    [roles |-> IF "roles" \in DOMAIN curr THEN curr.roles ELSE <<>>,
                     permissions |-> curr.permissions,
                     map |-> reducePermissions(curr.permissions, 1, EmptyObject)]))

\* faulty variant: an empty array yields no tenant record
processTenants_EmptyGivesNone(authInput) ==
    IF "notArray" \in DOMAIN authInput
    THEN Throw("TypeError")
    ELSE LET authArray ==
                 IF Len(itemsOf(authInput)) = 0 THEN <<>>
                 ELSE IF "strings" \in DOMAIN authInput
                 THEN <<[tenantId |-> "default", permissions |-> itemsOf(authInput)]>>
                 ELSE authInput.objects
         IN IF \E i \in 1..Len(authArray) : "permissions" \notin DOMAIN authArray[i]
            THEN Throw("TypeError")
            ELSE Return(reduceTenants(authArray, 1, EmptyObject))

processTenants(authInput) ==
    IF "notArray" \in DOMAIN authInput
    THEN Throw("TypeError")     \* authArray.reduce is not a function
    ELSE LET authArray ==
                 IF Len(itemsOf(authInput)) = 0 \/ "strings" \in DOMAIN authInput
                 THEN <<[tenantId |-> "default", permissions |-> itemsOf(authInput)]>>
                 ELSE authInput.objects
         IN IF \E i \in 1..Len(authArray) : "permissions" \notin DOMAIN authArray[i]
            THEN Throw("TypeError")     \* curr.permissions.reduce of undefined
            ELSE Return(reduceTenants(authArray, 1, EmptyObject))

----------------------------------------------------------------------------
(* Inputs of the store *)

StorePerms == {STAR, R_A}
FlatInputs == {StringArray(l) : l \in SeqsUpTo(StorePerms, MaxFlat)}

TenantAuthInputs ==
    {[tenantId |-> t, permissions |-> <<R_A>>] : t \in {"default", "t1"}}
    \cup {[tenantId |-> "t1", roles |-> <<"admin">>, permissions |-> <<R_STAR>>]}
MalformedTenantAuthInputs == {[tenantId |-> "t1"], [permissions |-> <<R_A>>]}

RecordInputs == {ObjectArray(l) : l \in SeqsUpTo(TenantAuthInputs, MaxTenants)}
MalformedInputs ==
    {NotAnArray} \cup {ObjectArray(<<m>>) : m \in MalformedTenantAuthInputs}

SwitchIds == {"default", "t1", "constructor", ""}

----------------------------------------------------------------------------
(* RBACProvider: state initializer, setAuth, switchTenant, reset *)

\* useState initializer with initialData given and non-empty
Hydrated(initialData) ==
    /\ Len(itemsOf(initialData)) > 0
    /\ tenants = processTenants(initialData).value
    /\ activeTenantId = IF get(tenants, "default") # Undefined THEN "default" ELSE Null
    /\ isLoading = FALSE

\* useState initializer with initialData absent or empty
NotHydrated ==
    /\ activeTenantId = Null
    /\ tenants = EmptyObject
    /\ isLoading = TRUE

Init ==
    /\ \/ NotHydrated /\ lastCall = [op |-> "construct"]
       \/ \E initialData \in FlatInputs :
              /\ Len(itemsOf(initialData)) = 0
              /\ NotHydrated
              /\ lastCall = [op |-> "construct", initialData |-> initialData]
       \/ \E initialData \in FlatInputs :
              Hydrated(initialData) /\ lastCall = [op |-> "construct", initialData |-> initialData]
       \/ \E initialData \in RecordInputs :
              Hydrated(initialData) /\ lastCall = [op |-> "construct", initialData |-> initialData]
    \* setAuth is memoized on [log]: it keeps the state of the render that created it
    /\ closureActiveTenantId = activeTenantId
    /\ debug \in BOOLEAN
    /\ mounted = FALSE
    /\ retained = NotRetained
    /\ NoGuardRendered
    /\ CallIdle

\* faulty variant: the new tenant records are merged into the previous ones
SetAuth_Merges(authInput) ==
    LET processed == processTenants(authInput)
        shouldAutoSwitch ==
            get(processed.value, "default") # Undefined /\ ~truthyId(closureActiveTenantId)
    IN /\ IF processed.kind = "return"
          THEN /\ tenants' = [id \in DOMAIN tenants \cup DOMAIN processed.value |->
                                 IF id \in DOMAIN processed.value
                                 THEN processed.value[id] ELSE tenants[id]]
               /\ isLoading' = FALSE
               /\ activeTenantId' = IF shouldAutoSwitch THEN "default" ELSE activeTenantId
          ELSE /\ isLoading' = FALSE
               /\ UNCHANGED <<tenants, activeTenantId>>
       /\ lastCall' = [op |-> "setAuth", authInput |-> authInput, activeBefore |-> activeTenantId,
                      idsBefore |-> DOMAIN tenants]
       /\ UNCHANGED <<closureActiveTenantId, debug, mounted, pc, args, ret, invoked, retained, props, route>>

SetAuth(authInput) ==
    LET processed == processTenants(authInput)
        shouldAutoSwitch ==
            get(processed.value, "default") # Undefined /\ ~truthyId(closureActiveTenantId)
    IN /\ IF processed.kind = "return"
          THEN /\ tenants' = processed.value
               /\ isLoading' = FALSE
               /\ activeTenantId' = IF shouldAutoSwitch THEN "default" ELSE activeTenantId
          ELSE \* catch
               /\ isLoading' = FALSE
               /\ UNCHANGED <<tenants, activeTenantId>>
       /\ lastCall' = [op |-> "setAuth", authInput |-> authInput, activeBefore |-> activeTenantId,
                      idsBefore |-> DOMAIN tenants]
       /\ UNCHANGED <<closureActiveTenantId, debug, mounted, pc, args, ret, invoked, retained, props, route>>

\* history: reset was called and setAuth has not been called since
sinceReset ==
    \/ lastCall.op = "reset"
    \/ lastCall.op = "switchTenant" /\ lastCall.afterReset

\* faulty variant: a switch puts the store back into loading
SwitchTenant_ShowsLoading(tenantId) ==
    /\ activeTenantId' = tenantId
    /\ isLoading' = TRUE
    /\ lastCall' = [op |-> "switchTenant", tenantId |-> tenantId, activeBefore |-> activeTenantId,
                    afterReset |-> sinceReset]
    /\ UNCHANGED <<tenants, closureActiveTenantId, debug, mounted, pc, args, ret, invoked, retained, props, route>>

SwitchTenant(tenantId) ==
    /\ activeTenantId' = tenantId
    /\ lastCall' = [op |-> "switchTenant", tenantId |-> tenantId, activeBefore |-> activeTenantId,
                    afterReset |-> sinceReset]
    /\ UNCHANGED <<tenants, isLoading, closureActiveTenantId, debug, mounted, pc, args, ret, invoked, retained, props, route>>

\* faulty variant: the active tenant is unset but the tenant records stay
Reset_KeepsTenants ==
    /\ activeTenantId' = Null
    /\ isLoading' = TRUE
    /\ lastCall' = [op |-> "reset", activeBefore |-> activeTenantId, idsBefore |-> DOMAIN tenants]
    /\ UNCHANGED <<tenants, closureActiveTenantId, debug, mounted, pc, args, ret, invoked, retained, props, route>>

Reset ==
    /\ activeTenantId' = Null
    /\ tenants' = EmptyObject
    /\ isLoading' = TRUE
    /\ lastCall' = [op |-> "reset", activeBefore |-> activeTenantId, idsBefore |-> DOMAIN tenants]
    /\ UNCHANGED <<closureActiveTenantId, debug, mounted, pc, args, ret, invoked, retained, props, route>>

\* the mount effect of the consuming component: setMounted(true)
Mount ==
    /\ ~mounted
    /\ mounted' = TRUE
    /\ UNCHANGED <<activeTenantId, tenants, isLoading, closureActiveTenantId, debug, lastCall,
                   pc, args, ret, invoked, retained, props, route>>

\* the provider re-renders with another debug prop: log, and with it setAuth,
\* is created again and closes over the state of that render
ChangeDebug ==
    /\ debug' = ~debug
    /\ closureActiveTenantId' = activeTenantId
    /\ UNCHANGED <<activeTenantId, tenants, isLoading, mounted, lastCall, pc, args, ret, invoked, retained, props, route>>

Next ==
    \/ \E authInput \in FlatInputs : SetAuth(authInput)
    \/ \E authInput \in RecordInputs : SetAuth(authInput)
    \/ \E authInput \in MalformedInputs : SetAuth(authInput)
    \/ \E tenantId \in SwitchIds : SwitchTenant(tenantId)
    \/ Reset
    \/ Mount
    \/ ChangeDebug

Spec == Init /\ [][Next]_vars

----------------------------------------------------------------------------
(* Query hooks, as functions of the state of the current render *)

\* what a hook reads: the store state of the render and its own mounted flag
Rendered ==
    [tenants |-> tenants, activeTenantId |-> activeTenantId,
     isLoading |-> isLoading, mounted |-> mounted]

\* state.tenants[state.activeTenantId]
activeTenant(st) == get(st.tenants, st.activeTenantId)

\* !mounted || state.isLoading || !state.activeTenantId || !state.tenants[state.activeTenantId]
notReady(st) ==
    \/ ~st.mounted
    \/ st.isLoading
    \/ ~truthyId(st.activeTenantId)
    \/ activeTenant(st) = Undefined

\* the same test without isLoading (usePermissions, usePermissionMatch)
notAuthed(st) ==
    \/ ~st.mounted
    \/ ~truthyId(st.activeTenantId)
    \/ activeTenant(st) = Undefined

\* !!tenant.map[p]
mapHas(map, p) == p \in DOMAIN map \/ p \in ObjectPrototypePermissionKeys

\* the value the hooks memoize, as a function of what the render saw
\* faulty variant: a role held in any loaded tenant grants
hasRoleMemo_AnyTenant(st, role) ==
    IF notReady(st) THEN Return(FALSE)
    ELSE Return(\E id \in DOMAIN st.tenants :
                    checkAccess(st.tenants[id], [roles |-> <<role>>], FALSE) = Return(TRUE))

hasRoleMemo(st, role) ==
    IF notReady(st) THEN Return(FALSE)
    ELSE checkAccess(activeTenant(st), [roles |-> <<role>>], FALSE)

hasPermissionMemo(st, permission) ==
    IF notReady(st) THEN Return(FALSE)
    ELSE checkAccess(activeTenant(st), [permissions |-> <<permission>>], FALSE)

hasAnyPermissionMemo(st, permissions) ==
    IF notReady(st) THEN Return(FALSE)
    ELSE LET tenant == activeTenant(st)
         IN IF "map" \notin DOMAIN tenant THEN Throw("TypeError")
            ELSE IF mapHas(tenant.map, STAR) THEN Return(TRUE)
            ELSE Return(\E i \in 1..Len(permissions) : mapHas(tenant.map, permissions[i]))

hasAllPermissionsMemo(st, permissions) ==
    IF notReady(st) THEN Return(FALSE)
    ELSE LET tenant == activeTenant(st)
         IN IF "map" \notin DOMAIN tenant THEN Throw("TypeError")
            ELSE IF mapHas(tenant.map, STAR) THEN Return(TRUE)
            ELSE Return(\A i \in 1..Len(permissions) : mapHas(tenant.map, permissions[i]))

useHasRole(role) == hasRoleMemo(Rendered, role)

useHasPermission(permission) == hasPermissionMemo(Rendered, permission)

useHasAnyPermission(permissions) == hasAnyPermissionMemo(Rendered, permissions)

useHasAllPermissions(permissions) == hasAllPermissionsMemo(Rendered, permissions)

\* tenant.permissions || []
permissionsOrEmpty(tenant) ==
    IF "permissions" \in DOMAIN tenant THEN tenant.permissions ELSE <<>>

permissionsMemo(st) ==
    IF notAuthed(st) THEN <<>>
    ELSE permissionsOrEmpty(activeTenant(st))

usePermissions == permissionsMemo(Rendered)

\* the handlers object: its keys in Object.entries order; "default" is one of the keys
DEFAULT == <<"d", "e", "f", "a", "u", "l", "t">>

\* faulty variant: every handler whose key matches is invoked
RECURSIVE matchFrom_CollectsAll(_, _, _)
matchFrom_CollectsAll(userPermissions, handlers, i) ==
    IF i > Len(handlers)
    THEN IF includes(handlers, DEFAULT) THEN <<DEFAULT>> ELSE <<>>
    ELSE IF handlers[i] = DEFAULT THEN matchFrom_CollectsAll(userPermissions, handlers, i + 1)
    ELSE IF checkPermission(userPermissions, handlers[i])
         THEN <<handlers[i]>> \o matchFrom_CollectsAll(userPermissions, handlers, i + 1)
    ELSE matchFrom_CollectsAll(userPermissions, handlers, i + 1)

\* match (guards.ts): the keys of the handlers invoked by one call, in order
RECURSIVE matchFrom(_, _, _)
matchFrom(userPermissions, handlers, i) ==
    IF i > Len(handlers)
    THEN IF includes(handlers, DEFAULT) THEN <<DEFAULT>> ELSE <<>>
    ELSE IF handlers[i] = DEFAULT THEN matchFrom(userPermissions, handlers, i + 1)
    ELSE IF checkPermission(userPermissions, handlers[i]) THEN <<handlers[i]>>
    ELSE matchFrom(userPermissions, handlers, i + 1)

match(userPermissions, handlers) == matchFrom(userPermissions, handlers, 1)

permissionMatchMemo(st, handlers) ==
    IF notAuthed(st)
    THEN IF includes(handlers, DEFAULT) THEN <<DEFAULT>> ELSE <<>>
    ELSE match(permissionsOrEmpty(activeTenant(st)), handlers)

usePermissionMatch(handlers) == permissionMatchMemo(Rendered, handlers)

\* faulty variant: an empty requirement is denied like any other while not ready
useAccess_DenyWhenNotReady(st, requirements) ==
    IF notReady(st) THEN Return(FALSE)
    ELSE checkAccess(activeTenant(st), requirements, FALSE)

\* the callback returned by useAccess in a render that saw st
useAccess(st, requirements) ==
    IF notReady(st)
    THEN IF ~hasLength(requirements, "roles") /\ ~hasLength(requirements, "permissions")
         THEN Return(TRUE)
         ELSE Return(FALSE)
    ELSE checkAccess(activeTenant(st), requirements, FALSE)

\* the callback of the current render
checkRequirement(requirements) == useAccess(Rendered, requirements)

----------------------------------------------------------------------------
(* A caller that keeps the function returned by useAccess *)

\* const checkRequirement = useAccess(): the caller keeps the function of this
\* render; useCallback made it from the tenants, activeTenantId, isLoading
\* and mounted of this render
Retain ==
    /\ retained' = Rendered
    /\ UNCHANGED <<activeTenantId, tenants, isLoading, closureActiveTenantId, debug, mounted,
                   lastCall, pc, args, ret, invoked, props, route>>

RetainedInputs ==
    {StringArray(<<R_A>>), StringArray(<<STAR>>),
     ObjectArray(<<[tenantId |-> "t1", permissions |-> <<R_A>>]>>)}

RetainedSwitchIds == {"default", "t1"}

InitRetained ==
    /\ NotHydrated
    /\ lastCall = [op |-> "construct"]
    /\ closureActiveTenantId = activeTenantId
    /\ debug = FALSE
    /\ mounted = FALSE
    /\ retained = NotRetained
    /\ NoGuardRendered
    /\ CallIdle

NextRetained ==
    \/ Retain
    \/ \E authInput \in RetainedInputs : SetAuth(authInput)
    \/ \E tenantId \in RetainedSwitchIds : SwitchTenant(tenantId)
    \/ Reset
    \/ Mount
    \/ ChangeDebug

SpecRetained == InitRetained /\ [][NextRetained]_vars

----------------------------------------------------------------------------
(* Can and ProtectedRoute *)

\* a prop is undefined, a single string ([string |-> s]) or an array ([array |-> l])
isUndefined(prop) == "typeof" \in DOMAIN prop

\* role ? (Array.isArray(role) ? role : [role]) : []
normalizeRole(role) ==
    IF isUndefined(role) THEN <<>>
    ELSE IF "array" \in DOMAIN role THEN role.array
    ELSE IF role.string = "" THEN <<>>
    ELSE <<role.string>>

\* permission ? (Array.isArray(permission) ? permission : [permission]) : []
normalizePermission(permission) ==
    IF isUndefined(permission) THEN <<>>
    ELSE IF "array" \in DOMAIN permission THEN permission.array
    ELSE IF Len(permission.string) = 0 THEN <<>>
    ELSE <<permission.string>>

\* Can: the useMemo that computes hasAccess; permission is handed to
\* checkAccess as it is
CanHasAccess(st, p) ==
    IF notReady(st) THEN Return(FALSE)
    ELSE LET tenant == activeTenant(st)
             roles == normalizeRole(p.role)
         IN IF isUndefined(p.permission)
            THEN checkAccess(tenant, [roles |-> roles], p.requireAll)
            ELSE IF "array" \in DOMAIN p.permission
            THEN checkAccess(tenant, [roles |-> roles, permissions |-> p.permission.array],
                             p.requireAll)
            \* a string: its length is that of the string, and it has neither
            \* some nor every
            ELSE IF Len(p.permission.string) = 0
            THEN checkAccess(tenant, [roles |-> roles, permissions |-> <<>>], p.requireAll)
            ELSE IF "permissions" \notin DOMAIN tenant THEN Throw("TypeError")
            ELSE IF includes(tenant.permissions, STAR)
            THEN checkAccess(tenant, [roles |-> roles, permissions |-> <<p.permission.string>>],
                             p.requireAll)
            ELSE Throw("TypeError")

\* Can: what it renders
Can(st, p) ==
    LET hasAccess == CanHasAccess(st, p)
    IN IF hasAccess.kind = "throw" THEN hasAccess
       ELSE IF hasAccess.value THEN Return("children")
       ELSE Return("fallback")

\* ProtectedRoute: the useMemo that computes hasAccess
RouteHasAccess(st, p) ==
    IF notReady(st) THEN Return(FALSE)
    ELSE checkAccess(activeTenant(st),
                     [roles |-> normalizeRole(p.role),
                      permissions |-> normalizePermission(p.permission)],
                     p.requireAll)

\* faulty variant: the content is rendered again once access is granted
ProtectedRoute_ForgetsRedirect(st, p, shouldRedirect) ==
    LET hasAccess == RouteHasAccess(st, p)
    IN IF hasAccess.kind = "throw" THEN hasAccess
       ELSE IF ~st.mounted \/ st.isLoading THEN Return("loading")
       ELSE IF ~hasAccess.value THEN Return("fallback")
       ELSE Return("children")

\* ProtectedRoute: what it renders
ProtectedRoute(st, p, shouldRedirect) ==
    LET hasAccess == RouteHasAccess(st, p)
    IN IF hasAccess.kind = "throw" THEN hasAccess
       ELSE IF ~st.mounted \/ st.isLoading THEN Return("loading")
       ELSE IF shouldRedirect \/ ~hasAccess.value THEN Return("fallback")
       ELSE Return("children")

\* the deps of the redirect effect that change (router, fallbackPath and
\* redirect do not)
RedirectDeps ==
    [mounted |-> mounted, isLoading |-> isLoading,
     hasAccess |-> RouteHasAccess(Rendered, props).value]

\* useEffect(() => { if (redirect && mounted && !state.isLoading && !hasAccess)
\* { setShouldRedirect(true); router.replace(fallbackPath) } }, [...]):
\* it runs after a render whose deps differ from those of its last run
RedirectEffect ==
    /\ RouteHasAccess(Rendered, props).kind = "return"
    /\ route.deps # RedirectDeps
    /\ IF props.redirect /\ mounted /\ ~isLoading /\ ~RedirectDeps.hasAccess
       THEN /\ route.replaced < MaxReplace
            /\ route' = [shouldRedirect |-> TRUE, deps |-> RedirectDeps,
                         replaced |-> route.replaced + 1]
       ELSE route' = [route EXCEPT !.deps = RedirectDeps]
    /\ UNCHANGED <<activeTenantId, tenants, isLoading, closureActiveTenantId, debug, mounted,
                   lastCall, pc, args, ret, invoked, retained, props>>

GuardPermissions ==
    {Undefined, [string |-> R_A], [array |-> <<R_A>>], [array |-> <<R_A, R_B>>]}
GuardRoles == {Undefined, [string |-> "admin"]}

GuardProps ==
    [permission : GuardPermissions, role : GuardRoles,
     requireAll : BOOLEAN, redirect : BOOLEAN]

ComponentInputs ==
    RetainedInputs
    \cup {ObjectArray(<<[tenantId |-> "t1", roles |-> <<"admin">>, permissions |-> <<R_STAR>>]>>)}

InitComponents ==
    /\ NotHydrated
    /\ lastCall = [op |-> "construct"]
    /\ closureActiveTenantId = activeTenantId
    /\ debug = FALSE
    /\ mounted = FALSE
    /\ retained = NotRetained
    /\ props \in GuardProps
    /\ route = RouteInitial
    /\ CallIdle

NextComponents ==
    \/ \E authInput \in ComponentInputs : SetAuth(authInput)
    \/ \E tenantId \in RetainedSwitchIds : SwitchTenant(tenantId)
    \/ Reset
    \/ Mount
    \/ RedirectEffect

SpecComponents == InitComponents /\ [][NextComponents]_vars

----------------------------------------------------------------------------
(* Arguments of the queries *)

QueryRoles == {"admin", "*"}
QueryPerms == {R_A, R_B, STAR, VALUE_OF}
QueryLists == SeqsUpTo(QueryPerms, MaxQuery)
QueryRequirements == Requirements(SeqsUpTo(QueryRoles, MaxQuery), SeqsUpTo({R_A, R_B}, MaxQuery))
QueryHandlers == SeqsUpTo({R_A, R_B, DEFAULT}, MaxQuery)

nonEmpty(requirements) ==
    hasLength(requirements, "roles") \/ hasLength(requirements, "permissions")

----------------------------------------------------------------------------
(* Properties *)

Range(seq) == {seq[i] : i \in 1..Len(seq)}

\* C1: while isLoading is true, or no tenant is active, or the active tenant
\* id is no key of tenants, hasRole, hasPermission, hasAnyPermission,
\* hasAllPermissions and checkRequirement with a non-empty requirement all
\* return false, listPermissions is empty and matchFirst invokes no handler
\* other than the default one.
C1_FailClosed ==
    (isLoading \/ activeTenantId = Null \/ activeTenantId \notin DOMAIN tenants) =>
        /\ \A role \in QueryRoles : useHasRole(role) = Return(FALSE)
        /\ \A permission \in QueryPerms : useHasPermission(permission) = Return(FALSE)
        /\ \A permissions \in QueryLists :
               /\ useHasAnyPermission(permissions) = Return(FALSE)
               /\ useHasAllPermissions(permissions) = Return(FALSE)
        /\ \A requirements \in QueryRequirements :
               nonEmpty(requirements) => checkRequirement(requirements) = Return(FALSE)
        /\ usePermissions = <<>>
        /\ \A handlers \in QueryHandlers : usePermissionMatch(handlers) \in {<<>>, <<DEFAULT>>}

\* the text of required before its first ":"
beforeFirstColon(required) ==
    LET i == CHOOSE k \in 1..Len(required) :
                 required[k] = ":" /\ \A j \in 1..(k - 1) : required[j] # ":"
    IN SubSeq(required, 1, i - 1)

\* C2: for a required string that contains ":", checkPermission is true
\* exactly when held contains "*", or required verbatim, or "<resource>:*"
\* for the non-empty text <resource> of required before its first ":".
C2_MatchesWithColon ==
    (pc = "return" /\ ":" \in Range(args.requiredPermission)) =>
        ret.value =
            (\/ STAR \in Range(args.heldPermissions)
             \/ args.requiredPermission \in Range(args.heldPermissions)
             \/ /\ beforeFirstColon(args.requiredPermission) # <<>>
                /\ (beforeFirstColon(args.requiredPermission) \o <<":", "*">>)
                       \in Range(args.heldPermissions))

\* C2 witness: a request granted by the resource wildcard alone
C2_Witness ==
    /\ pc = "return"
    /\ args.requiredPermission = R_A
    /\ args.heldPermissions = <<Q_STAR, R_STAR>>
    /\ ret.value = TRUE

\* C3 as claimed: for a required string without ":", checkPermission is
\* true only if held contains "*" or required verbatim.
C3_NoColonNeverWildcard ==
    (pc = "return" /\ ":" \notin Range(args.requiredPermission)) =>
        (ret.value =>
            \/ STAR \in Range(args.heldPermissions)
            \/ args.requiredPermission \in Range(args.heldPermissions))

\* C3 amended: for a required string without ":", the resource is the whole
\* string: checkPermission is true exactly when held contains "*", or
\* required verbatim, or, for a non-empty required, "<required>:*".
C3_NoColonWholeStringIsResource ==
    (pc = "return" /\ ":" \notin Range(args.requiredPermission)) =>
        ret.value =
            (\/ STAR \in Range(args.heldPermissions)
             \/ args.requiredPermission \in Range(args.heldPermissions)
             \/ /\ args.requiredPermission # <<>>
                /\ (args.requiredPermission \o <<":", "*">>) \in Range(args.heldPermissions))

\* C3 witness: held ["r:*"] satisfies required "r"
C3_Witness ==
    /\ pc = "return"
    /\ args.requiredPermission = R_
    /\ args.heldPermissions = <<R_STAR>>
    /\ ret.value = TRUE

\* the role requirement is satisfied
RoleSatisfied(tenant, requirements) ==
    \/ "*" \in Range(tenant.roles)
    \/ Range(requirements.roles) \cap Range(tenant.roles) # {}

\* the permission requirement is satisfied
PermissionSatisfied(tenant, requirements, requireAll) ==
    \/ STAR \in Range(tenant.permissions)
    \/ IF requireAll
       THEN \A p \in Range(requirements.permissions) : checkPermission(tenant.permissions, p)
       ELSE \E p \in Range(requirements.permissions) : checkPermission(tenant.permissions, p)

C5_RolesAlwaysOr ==
    (/\ pc = "return"
     /\ hasLength(args.requirements, "roles")
     /\ \/ ~hasLength(args.requirements, "permissions")
        \/ PermissionSatisfied(args.tenant, args.requirements, args.requireAll)) =>
        ret = Return(RoleSatisfied(args.tenant, args.requirements))

\* C5 witness: requireAll is set, one of two requested roles is held
C5_Witness ==
    /\ pc = "return"
    /\ args.requireAll
    /\ args.tenant.roles = <<"manager">>
    /\ args.requirements = [roles |-> <<"admin", "manager">>]
    /\ ret = Return(TRUE)

\* C6: for a non-empty permissions requirement and a tenant without "*"
\* (the role requirement vacuous or satisfied), checkAccess with requireAll
\* is true exactly when every requested permission passes checkPermission,
\* and without requireAll exactly when at least one does.
C6_RequireAllWithinPermissions ==
    (/\ pc = "return"
     /\ hasLength(args.requirements, "permissions")
     /\ STAR \notin Range(args.tenant.permissions)
     /\ \/ ~hasLength(args.requirements, "roles")
        \/ RoleSatisfied(args.tenant, args.requirements)) =>
        ret = Return(IF args.requireAll
                     THEN \A i \in 1..Len(args.requirements.permissions) :
                              checkPermission(args.tenant.permissions,
                                              args.requirements.permissions[i])
                     ELSE \E i \in 1..Len(args.requirements.permissions) :
                              checkPermission(args.tenant.permissions,
                                              args.requirements.permissions[i]))

\* C6 witness: one of two requested permissions is held and requireAll denies
C6_Witness ==
    /\ pc = "return"
    /\ args.requireAll
    /\ args.tenant.permissions = <<R_A>>
    /\ args.requirements = [permissions |-> <<R_A, R_B>>]
    /\ ret = Return(FALSE)

C9_FlatLoadActivatesDefault ==
    (/\ lastCall.op = "setAuth"
     /\ "strings" \in DOMAIN lastCall.authInput
     /\ Len(lastCall.authInput.strings) > 0
     /\ lastCall.activeBefore = Null) =>
        /\ activeTenantId = "default"
        /\ mounted =>
               \A p \in Range(lastCall.authInput.strings) : useHasPermission(p) = Return(TRUE)

\* the tenant ids of a well-formed input after normalization
loadedIds(authInput) == DOMAIN processTenants(authInput).value

\* C10: setAuth leaves activeTenantId as it is when a tenant id is active,
\* and leaves it null when none is active and the input has no "default".
C10_LoadKeepsActiveTenant ==
    (lastCall.op = "setAuth" /\ processTenants(lastCall.authInput).kind = "return") =>
        /\ truthyId(lastCall.activeBefore) => activeTenantId = lastCall.activeBefore
        /\ (lastCall.activeBefore = Null /\ "default" \notin loadedIds(lastCall.authInput)) =>
               activeTenantId = Null

\* an input of one of the two accepted shapes
WellFormed(authInput) ==
    /\ "notArray" \notin DOMAIN authInput
    /\ "objects" \in DOMAIN authInput =>
           \A i \in 1..Len(authInput.objects) :
               {"tenantId", "permissions"} \subseteq DOMAIN authInput.objects[i]

\* the normalization of a well-formed input: one record per tenant id, taken
\* from the last entry with that id; a flat or empty list is tenant "default"
Normalization(authInput) ==
    LET arr == IF "strings" \in DOMAIN authInput \/ Len(itemsOf(authInput)) = 0
               THEN <<[tenantId |-> "default", permissions |-> itemsOf(authInput)]>>
               ELSE authInput.objects
        ids == {arr[i].tenantId : i \in 1..Len(arr)}
        last(id) == arr[CHOOSE i \in 1..Len(arr) :
                            /\ arr[i].tenantId = id
                            /\ \A j \in (i + 1)..Len(arr) : arr[j].tenantId # id]
    IN [id \in ids |->
           [roles |-> IF "roles" \in DOMAIN last(id) THEN last(id).roles ELSE <<>>,
            permissions |-> last(id).permissions,
            map |-> [p \in Range(last(id).permissions) |-> TRUE]]]

\* C11: after setAuth of a well-formed input B, tenants is exactly the
\* normalization of B (no id and no role or permission of an earlier load
\* survives) and isLoading is false.
C11_LoadSupersedes ==
    (lastCall.op = "setAuth" /\ WellFormed(lastCall.authInput)) =>
        /\ tenants = Normalization(lastCall.authInput)
        /\ ~isLoading

\* C11 witness: "default" and "t1" were loaded, the next load names only "default"
C11_Witness ==
    /\ lastCall.op = "setAuth"
    /\ lastCall.idsBefore = {"default", "t1"}
    /\ lastCall.authInput = ObjectArray(<<[tenantId |-> "default", permissions |-> <<R_A>>]>>)
    /\ DOMAIN tenants = {"default"}
    /\ tenants["default"].roles = <<>>
    /\ ~isLoading

\* C12: switchTenant(id) sets activeTenantId to id for every id and leaves
\* tenants and isLoading as they are; a setAuth that follows it and contains
\* id keeps id active, and the queries read that tenant's record.
C12_SwitchThenLoad ==
    [][/\ \A id \in SwitchIds :
              SwitchTenant(id) =>
                  /\ activeTenantId' = id
                  /\ tenants' = tenants
                  /\ isLoading' = isLoading
       /\ \A authInput \in FlatInputs \cup RecordInputs :
              (/\ lastCall.op = "switchTenant"
               /\ lastCall.tenantId \in loadedIds(authInput)
               /\ SetAuth(authInput)) =>
                  /\ activeTenantId' = lastCall.tenantId
                  /\ mounted => usePermissions' = tenants'[lastCall.tenantId].permissions]_vars

\* C13: reset empties tenants, unsets activeTenantId and sets isLoading;
\* from then until the next setAuth every boolean query returns false.
C13_ResetClears ==
    /\ lastCall.op = "reset" => activeTenantId = Null
    /\ sinceReset =>
           /\ tenants = EmptyObject
           /\ isLoading
           /\ \A role \in QueryRoles : useHasRole(role) = Return(FALSE)
           /\ \A permission \in QueryPerms : useHasPermission(permission) = Return(FALSE)
           /\ \A permissions \in QueryLists :
                  /\ useHasAnyPermission(permissions) = Return(FALSE)
                  /\ useHasAllPermissions(permissions) = Return(FALSE)
           /\ \A requirements \in QueryRequirements :
                  nonEmpty(requirements) => checkRequirement(requirements) = Return(FALSE)

\* C13, the time until the next setAuth: a switch to "t1" after the reset
C13_WitnessUntilLoad ==
    /\ sinceReset
    /\ mounted
    /\ lastCall.op = "switchTenant"
    /\ lastCall.activeBefore = Null
    /\ activeTenantId = "t1"

\* C13 witness: reset of a mounted provider that held tenants "default" and
\* "t1" with "t1" active
C13_Witness ==
    /\ lastCall.op = "reset"
    /\ lastCall.idsBefore = {"default", "t1"}
    /\ lastCall.activeBefore = "t1"
    /\ mounted

\* setAuth was the last call and its input was the empty array
emptyLoad ==
    /\ lastCall.op = "setAuth"
    /\ "notArray" \notin DOMAIN lastCall.authInput
    /\ Len(itemsOf(lastCall.authInput)) = 0

\* C14 as stated: setAuth([]) leaves tenants empty and activates no tenant.
C14_EmptyLoadNoTenants ==
    emptyLoad =>
        /\ tenants = EmptyObject
        /\ activeTenantId = lastCall.activeBefore

\* C14 amended: setAuth([]) leaves exactly one tenant record, "default", with
\* no roles, no permissions and an empty lookup; isLoading is false;
\* activeTenantId is what it was or has become "default", and with "default"
\* active no role and no single permission is granted.
C14_EmptyLoadGivesEmptyDefault ==
    emptyLoad =>
        /\ DOMAIN tenants = {"default"}
        /\ tenants["default"] = [roles |-> <<>>, permissions |-> <<>>, map |-> EmptyObject]
        /\ ~isLoading
        /\ activeTenantId \in {lastCall.activeBefore, "default"}
        /\ activeTenantId = "default" =>
               /\ \A role \in QueryRoles : useHasRole(role) = Return(FALSE)
               /\ \A permission \in QueryPerms : useHasPermission(permission) = Return(FALSE)

\* C14 witness: setAuth([]) on a mounted provider with no active tenant,
\* after which "default" is active
C14_Witness ==
    /\ emptyLoad
    /\ lastCall.activeBefore = Null
    /\ activeTenantId = "default"
    /\ mounted

\* the state setAuth(authInput) produces when called on a provider that was
\* constructed without initialData
loadOnEmptyProvider(authInput) ==
    LET processed == processTenants(authInput)
    IN [tenants |-> processed.value,
        activeTenantId |-> IF get(processed.value, "default") # Undefined THEN "default" ELSE Null,
        isLoading |-> FALSE]

\* C15: a provider constructed with initialData I (I may be empty) starts in
\* the state that construction without initialData followed by setAuth(I)
\* produces, with isLoading false.
C15_HydrationIsLoad ==
    (lastCall.op = "construct" /\ "initialData" \in DOMAIN lastCall) =>
        /\ ~isLoading
        /\ [tenants |-> tenants, activeTenantId |-> activeTenantId, isLoading |-> isLoading]
               = loadOnEmptyProvider(lastCall.initialData)

\* C16: setAuth of a malformed input completes, clears isLoading and leaves
\* tenants and activeTenantId as they were before the call.
C16_MalformedLoadKeepsState ==
    [][\A authInput \in MalformedInputs :
           SetAuth(authInput) =>
               /\ ~isLoading'
               /\ tenants' = tenants
               /\ activeTenantId' = activeTenantId]_vars

\* C17: in every reachable state and for every tenant record, the own keys
\* of the lookup are exactly the strings of the permissions sequence, each
\* with value true.
C17_LookupIsMembership ==
    \A id \in DOMAIN tenants :
        /\ DOMAIN tenants[id].map = Range(tenants[id].permissions)
        /\ \A p \in DOMAIN tenants[id].map : tenants[id].map[p] = TRUE

\* C17 witness: a second load replaced a record of "default"; the new one
\* lists a permission twice
C17_Witness ==
    /\ lastCall.op = "setAuth"
    /\ "default" \in lastCall.idsBefore
    /\ "default" \in DOMAIN tenants
    /\ tenants["default"].permissions = <<R_A, R_A>>
    /\ DOMAIN tenants["default"].map = {R_A}

\* handlers objects: up to MaxHandlers distinct keys in the caller's order
MatchHandlers ==
    {handlers \in SeqsUpTo({R_A, R_B, Q_A, DEFAULT}, MaxHandlers) :
        \A i, j \in 1..Len(handlers) : handlers[i] = handlers[j] => i = j}

\* first-match-wins: the first key other than "default", in the caller's
\* order, that the held permissions satisfy; else "default" if present; else none
firstMatch(held, handlers) ==
    LET matching == {i \in 1..Len(handlers) :
                        handlers[i] # DEFAULT /\ checkPermission(held, handlers[i])}
    IN IF matching # {}
       THEN <<handlers[CHOOSE i \in matching : \A j \in matching : i <= j]>>
       ELSE IF DEFAULT \in Range(handlers) THEN <<DEFAULT>>
       ELSE <<>>

\* C18: match, on the permissions of any tenant record, and usePermissionMatch,
\* on the permissions the hooks see, invoke at most one handler: that of the
\* first matching key; "default" only when no key matches; none otherwise.
C18_FirstMatchWins ==
    \A handlers \in MatchHandlers :
        /\ \A id \in DOMAIN tenants :
               LET ran == match(tenants[id].permissions, handlers)
               IN /\ Len(ran) <= 1
                  /\ ran = firstMatch(tenants[id].permissions, handlers)
        /\ LET ran == usePermissionMatch(handlers)
           IN /\ Len(ran) <= 1
              /\ ran = firstMatch(usePermissions, handlers)

\* C18 witness: the active tenant holds "r:*"; with keys default, r:b, r:a in
\* this order only the handler of r:b runs, and with q:a, r:a that of r:a
C18_Witness ==
    /\ mounted
    /\ usePermissions = <<R_STAR>>
    /\ usePermissionMatch(<<DEFAULT, R_B, R_A>>) = <<R_B>>
    /\ usePermissionMatch(<<Q_A, R_A>>) = <<R_A>>
    /\ usePermissionMatch(<<Q_A>>) = <<>>

\* sub occurs in seq as a contiguous piece
Contains(seq, sub) ==
    \E i \in 1..(Len(seq) - Len(sub) + 1) : SubSeq(seq, i, i + Len(sub) - 1) = sub

\* C19: an invocation of the function returned by guard(held, required, action)
\* never invokes action more than once; when it has completed and required is
\* not matched, it has failed with an error whose message contains required
\* and action was not invoked; when required is matched, action was invoked
\* once with the given arguments and its result or failure is the outcome.
C19_GuardDeniesOrDelegates ==
    /\ Len(invoked) <= 1
    /\ pc = "call" => invoked = <<>>
    /\ pc = "return" =>
           IF checkPermission(args.userPermissions, args.required)
           THEN /\ invoked = <<args.callArgs>>
                /\ ret = args.action
           ELSE /\ invoked = <<>>
                /\ ret.kind = "throw"
                /\ Contains(ret.error.message, args.required)

\* C19 witness: guard(["r:a"], "r:b", action)("x") has failed, action not invoked
C19_Witness ==
    /\ pc = "return"
    /\ args.userPermissions = <<R_A>>
    /\ args.required = R_B
    /\ args.callArgs = <<"x">>
    /\ invoked = <<>>
    /\ ret = Throw(Error(AccessDeniedMessage(R_B)))

\* C19, the permitted case: guard(["r:*"], "r:b", action)("x", "y") where
\* action throws
C19_WitnessDelegates ==
    /\ pc = "return"
    /\ args.userPermissions = <<R_STAR>>
    /\ args.required = R_B
    /\ invoked = <<<<"x", "y">>>>
    /\ ret = Throw(Error(<<"b", "o", "o", "m">>))

\* C20: a checkRequirement function obtained from useAccess in a mounted
\* component and kept by the caller decides, whenever it is called later,
\* as the function of the current render does.
C20_RetainedSeesCurrentState ==
    (retained # NotRetained /\ retained.mounted) =>
        \A requirements \in QueryRequirements :
            useAccess(retained, requirements) = checkRequirement(requirements)

\* the requirement of a guard, single strings made one-element lists
requirementOf(p) ==
    [roles |-> normalizeRole(p.role), permissions |-> normalizePermission(p.permission)]

\* the Access Combinator allows the guard's requirement for the active tenant
allows(st, p) ==
    /\ truthyId(st.activeTenantId)
    /\ activeTenant(st) # Undefined
    /\ checkAccess(activeTenant(st), requirementOf(p), p.requireAll) = Return(TRUE)

\* C21: a mounted Can under a store that is not loading renders its children
\* when the combinator allows its requirement for the active tenant and its
\* fallback otherwise, and does not throw, for a permission prop that is a
\* string as for one that is a list.
C21_CanDecides ==
    (props \in GuardProps /\ mounted /\ ~isLoading) =>
        Can(Rendered, props) =
            Return(IF allows(Rendered, props) THEN "children" ELSE "fallback")

\* C22: a Can that is given neither role nor permission renders its children
\* in no store state.
C22_CanWithoutRequirementDenies ==
    (props \in GuardProps /\ isUndefined(props.permission) /\ isUndefined(props.role)) =>
        Can(Rendered, props) # Return("children")

\* the guard has not completed its first mount pass or the store is loading
undecided == ~mounted \/ isLoading

\* C23: while a guard is not mounted or the store is loading, Can renders
\* neither its children nor its fallback, ProtectedRoute renders the loading
\* placeholder only, and no step calls router.replace.
C23_NoDecisionBeforeReady ==
    [][/\ undecided' =>
              /\ Can(Rendered, props)' \notin {Return("children"), Return("fallback")}
              /\ ProtectedRoute(Rendered, props, route.shouldRedirect)' = Return("loading")
       /\ undecided => route'.replaced = route.replaced]_vars

\* what ProtectedRoute renders in the current state
routeRenders == ProtectedRoute(Rendered, props, route.shouldRedirect)

\* C24: a step that calls router.replace is taken from a render that does not
\* show the children and leads to one that does not either, and no state with
\* shouldRedirect set shows the children.
C24_RedirectSupersedesContent ==
    [][/\ route'.replaced > route.replaced =>
              /\ routeRenders # Return("children")
              /\ routeRenders' # Return("children")
       /\ route'.shouldRedirect => routeRenders' # Return("children")]_vars

\* C24 witness: a redirect was triggered and a later load or switch made the
\* requirement satisfied; the fallback is still what is rendered
C24_Witness ==
    /\ props \in GuardProps
    /\ route.replaced = 1
    /\ route.shouldRedirect
    /\ mounted /\ ~isLoading
    /\ allows(Rendered, props)
    /\ routeRenders = Return("fallback")

\* C25: a ProtectedRoute calls router.replace at most once whatever setAuth,
\* switchTenant and reset calls follow the first denial, and never when
\* redirect is false.
C25_RedirectsAtMostOnce ==
    props \in GuardProps =>
        /\ route.replaced <= 1
        /\ ~props.redirect => route.replaced = 0

\* C26: a setAuth that directly follows a setAuth with the same input leaves
\* tenants, activeTenantId and isLoading as the first call left them.
C26_LoadIsIdempotent ==
    [][\A authInput \in FlatInputs \cup RecordInputs :
           (/\ lastCall.op = "setAuth"
            /\ lastCall.authInput = authInput
            /\ SetAuth(authInput)) =>
               /\ tenants' = tenants
               /\ activeTenantId' = activeTenantId
               /\ isLoading' = isLoading]_vars

\* C27: whenever ProtectedRoute is mounted, the store is not loading and the
\* active tenant satisfies the requirement, ProtectedRoute renders its
\* children, whatever was decided in earlier states.
C27_RouteRendersWhenAllowed ==
    (props \in GuardProps /\ mounted /\ ~isLoading /\ allows(Rendered, props)) =>
        routeRenders = Return("children")

\* C28: in a ready store state (mounted consumer, not loading, the active
\* tenant has a record) the list hooks on [p] agree with useHasPermission(p),
\* for every p.
C28_ListChecksAgreeWithSingle ==
    (mounted /\ ~isLoading /\ activeTenantId \in DOMAIN tenants) =>
        \A p \in QueryPerms :
            /\ useHasAnyPermission(<<p>>) = useHasPermission(p)
            /\ useHasAllPermissions(<<p>>) = useHasPermission(p)

\* the answers of all queries in a render that sees st
QueryAnswers(st) ==
    [hasRole |-> [role \in QueryRoles |-> hasRoleMemo(st, role)],
     hasPermission |-> [p \in QueryPerms |-> hasPermissionMemo(st, p)],
     hasAnyPermission |-> [l \in QueryLists |-> hasAnyPermissionMemo(st, l)],
     hasAllPermissions |-> [l \in QueryLists |-> hasAllPermissionsMemo(st, l)],
     listPermissions |-> permissionsMemo(st),
     checkRequirement |-> [r \in QueryRequirements |-> useAccess(st, r)],
     matchFirst |-> [h \in QueryHandlers |-> permissionMatchMemo(st, h)]]

\* what the claim lets an answer depend on: the state of the render with the
\* record of every tenant but the active one removed
Isolated ==
    [Rendered EXCEPT !.tenants =
        [id \in DOMAIN tenants \cap {activeTenantId} |-> tenants[id]]]

\* C29: tenant isolation. Every query answers in every state as it does when
\* the records of the non-active tenants are removed: the answer is a function
\* of isLoading, activeTenantId, the consumer's mounted flag and the record of
\* the active tenant, so two states that agree on those answer alike.
C29_TenantIsolation == QueryAnswers(Rendered) = QueryAnswers(Isolated)

\* a ready state whose active tenant lacks the role admin that the loaded,
\* non-active tenant t1 holds: hasRole("admin") is false
C29_Witness ==
    /\ mounted /\ ~isLoading
    /\ activeTenantId = "default"
    /\ {"default", "t1"} \subseteq DOMAIN tenants
    /\ includes(tenants["t1"].roles, "admin")
    /\ ~includes(tenants["default"].roles, "admin")
    /\ useHasRole("admin") = Return(FALSE)
    /\ Isolated # Rendered

\* what matchFirst invokes when nothing is granted: the default handler if
\* handlers has one
defaultOnly(handlers) == IF includes(handlers, DEFAULT) THEN <<DEFAULT>> ELSE <<>>

\* C30: while isLoading is true the store holds no tenant record, so
\* listPermissions is empty and matchFirst invokes at most the default handler.
C30_LoadingHoldsNoTenants ==
    isLoading =>
        /\ tenants = EmptyObject
        /\ usePermissions = <<>>
        /\ \A handlers \in QueryHandlers : usePermissionMatch(handlers) = defaultOnly(handlers)

\* a mounted consumer of a store that was reset and then switched
\* to a tenant: loading, an active tenant id, no record
C30_Witness ==
    /\ isLoading /\ mounted
    /\ lastCall.op = "switchTenant" /\ lastCall.afterReset
    /\ activeTenantId = "t1"
    /\ usePermissionMatch(<<R_A, DEFAULT>>) = <<DEFAULT>>
====
